---- MODULE Spec2Model ----
(***************************************************************************)
(* A model of ketos' traceback facility (src/src/ketos/trace.rs):          *)
(*   - the Trace aggregate (items + optional expression),                  *)
(*   - the thread-local TRACEBACK slot and its four accessors,             *)
(*   - the NameDisplay rendering of a Trace.                               *)
(*                                                                         *)
(* Option<T> is modelled as a sequence of length <= 1: None is <<>> and    *)
(* Some(v) is <<v>>.  A TraceItem is a tuple <<variant, name ...>>.        *)
(* Trace values owned by a thread live in `heap`, so that a clone is a     *)
(* distinct object from the value it was cloned from.                      *)
(***************************************************************************)
EXTENDS Integers, Sequences, FiniteSets, TLC

\* ------------------------------------------------------------------ bounds
\* Total number of registry / aggregate calls recorded in one behaviour.
MaxOps == 4

\* Longest item sequence handed to Trace::new.
MaxItems == 3

\* Largest number of writes a rejecting sink accepts before it rejects.
MaxWrites == 6

\* ---------------------------------------------------------- Option<T>
None == <<>>
Some(v) == <<v>>
IsSome(o) == Len(o) = 1
Unwrap(o) == o[1]

\* ------------------------------------------------- names and values
\* Name handles (crate::name::Name) and the display text the NameStore
\* resolves them to.
Names == {1, 2, 3, 4}

NameStore ==
    [n \in Names |-> CASE n = 1 -> "main"
                      [] n = 2 -> "x"
                      [] n = 3 -> "+"
                      [] n = 4 -> "open-file"]

\* names.get(name)
NameStore_get(names, n) == names[n]

\* Captured expressions (crate::value::Value), identified by a label.
Values == {"v1", "v2"}

\* ----------------------------------------------------------- TraceItem
CallCode(m, n) == <<"CallCode", m, n>>
CallExpr(m) == <<"CallExpr", m>>
CallLambda(m) == <<"CallLambda", m>>
CallMacro(m, n) == <<"CallMacro", m, n>>
CallOperator(m, n) == <<"CallOperator", m, n>>
CallSys(n) == <<"CallSys", n>>
Define(m, n) == <<"Define", m, n>>
DefineConst(m, n) == <<"DefineConst", m, n>>
DefineLambda(m) == <<"DefineLambda", m>>
DefineMacro(m, n) == <<"DefineMacro", m, n>>
DefineStruct(m, n) == <<"DefineStruct", m, n>>
UseModule(m, n) == <<"UseModule", m, n>>

\* One item of every variant: the items Trace::single is called with.
TraceItems ==
    { CallCode(1, 2), CallExpr(1), CallLambda(1), CallMacro(1, 2),
      CallOperator(1, 3), CallSys(4), Define(1, 2), DefineConst(1, 2),
      DefineLambda(1), DefineMacro(1, 2), DefineStruct(1, 2), UseModule(1, 2) }

\* The items of the sequences Trace::new is called with.
FrameItems == { Define(1, 2), CallOperator(1, 3), CallLambda(1), DefineMacro(2, 1) }

ItemSeqs == UNION { [1 .. k -> FrameItems] : k \in 0 .. MaxItems }

\* A foreign value (Value::Foreign) whose destructor calls get_traceback().
ForeignValue == "foreign"

\* The registry calls the destructor of a Value makes when the Value dies.
Value_drop(v) == IF v = ForeignValue THEN <<"get_traceback">> ELSE <<>>

OptValues == {None} \cup { Some(v) : v \in Values }

\* ---------------------------------------------------------------- Trace
\* Mutant of Trace_new: the items are stored innermost first.
Trace_new_reversed(items, expr) ==
    [items |-> [i \in 1 .. Len(items) |-> items[Len(items) + 1 - i]], expr |-> expr]

Trace_new(items, expr) == [items |-> items, expr |-> expr]

Trace_single(item, expr) == Trace_new(<<item>>, expr)

Trace_items(self) == self.items

Trace_expr(self) == self.expr

\* Mutant of Trace_take_expr: the whole Trace is taken (mem::take on self
\* instead of on self.expr), leaving an empty one behind.
Trace_take_expr_whole(self) == [ret |-> self.expr, self |-> Trace_new(<<>>, None)]

\* Mutant of Trace_take_expr: the expression is returned but not removed.
Trace_take_expr_peek(self) == [ret |-> self.expr, self |-> self]

\* Option::take on the expr field: the old content is returned and the
\* field is left None.
Trace_take_expr(self) == [ret |-> self.expr, self |-> [self EXCEPT !.expr = None]]

\* Mutant of Trace_clone: the copy loses the expression.
Trace_clone_without_expr(self) == [items |-> self.items, expr |-> None]

\* #[derive(Clone)]: a field-by-field copy.
Trace_clone(self) == [items |-> self.items, expr |-> self.expr]

\* ------------------------------------------------------------- registry
Threads == {1, 2}

\* Mutant of thread_local: a plain static, one slot for all threads.
process_static(t) == 1

\* thread_local!: every thread has a slot of its own.
thread_local(t) == t

\* Object identities for the Trace values a thread owns.
ObjIds == 1 .. (2 * Cardinality(Threads) + 1)

\* Traces handed to set_traceback by the callers.
TracePool ==
    { Trace_single(CallSys(4), Some("v1")),
      Trace_new(<<Define(1, 2), CallOperator(1, 3)>>, Some("v2")),
      Trace_new(<<>>, None),
      Trace_new(<<CallLambda(1)>>, Some(ForeignValue)) }

VARIABLES
    TRACEBACK,  \* slot key -> Option<object id>: the RefCell<Option<Trace>>
    heap,       \* object id -> Option<Trace>: None when the object is dropped
    local,      \* thread -> Option<object id>: the Option<Trace> the caller
                \* received from its last get_traceback / take_traceback
    log,        \* thread -> sequence of the calls the thread has made
    agg,        \* Option<Trace>: a Trace under construction and use
    made,       \* the constructor call that built agg
    takes,      \* take_expr calls made on agg so far: 0, 1, or 2 for more
    last        \* the last call made on agg and what it returned

regvars == <<TRACEBACK, heap, local, log>>
aggvars == <<agg, made, takes, last>>
vars == <<TRACEBACK, heap, local, log, agg, made, takes, last>>

\* Mutant of replace: the old content is handed back but stays in place.
replace_keep(dest, src) == [ret |-> dest, dest |-> dest]

\* std::mem::replace: store src, hand back the old content.
replace(dest, src) == [ret |-> dest, dest |-> src]

\* Mutant of Drop: the object stays alive (a leak).
Drop_leak(h, o) == h

\* Dropping an owned Option<Trace>.
Drop(h, o) == IF IsSome(o) THEN [h EXCEPT ![Unwrap(o)] = None] ELSE h

\* A fresh object identity: the least one not in use.
NewObj(h) == CHOOSE o \in ObjIds : h[o] = None /\ \A p \in ObjIds : h[p] = None => o <= p

\* The Option<Trace> value behind an Option<object id>.
Content(h, o) == IF IsSome(o) THEN h[Unwrap(o)] ELSE None

Slot(t) == Content(heap, TRACEBACK[thread_local(t)])

\* The calls made by destructors when the Option<Trace> o is dropped: those
\* of its expression, when no other live Trace shares the expression.
DropCalls(h, o) ==
    LET old == Content(h, o)
    IN IF IsSome(old) /\ IsSome(Unwrap(old).expr)
          /\ \A p \in ObjIds \ {Unwrap(o)} :
                 IsSome(h[p]) => Unwrap(h[p]).expr # Unwrap(old).expr
       THEN Value_drop(Unwrap(Unwrap(old).expr))
       ELSE <<>>

\* RefCell::borrow: refused (BorrowError, a panic) while the cell is
\* mutably borrowed.
RefCell_borrow(state) == state # "writing"

\* `*tb.borrow_mut() = new`: the old value is dropped while the RefMut is
\* alive; TRUE when every call made by the destructors completes, which a
\* get_traceback does when tb.borrow() is granted.
assign_completes(h, o) ==
    \A i \in 1 .. Len(DropCalls(h, o)) :
        DropCalls(h, o)[i] = "get_traceback" => RefCell_borrow("writing")

\* What a caller passes to set_traceback: a newly built Trace, or a clone of
\* the one it holds.
SetArgs(t) == TracePool \cup { Trace_clone(Unwrap(h)) : h \in {Content(heap, local[t])} \ {None} }

Ops == Len(log[1]) + Len(log[2])

\* What every thread can observe: its slot and the value it holds.
Views == [u \in Threads |-> [slot |-> Slot(u), local |-> Content(heap, local[u])]]

\* The call is appended to the caller's log with its argument, its result
\* and the views before and after it.
\* `ok` is FALSE when the call ended in a panic.
RecordCall(t, op, arg, ret, ok) ==
    log' = [log EXCEPT ![t] = Append(@,
              [op |-> op, arg |-> arg, ret |-> ret, ok |-> ok,
               pre |-> Views, post |-> Views'])]

Record(t, op, arg, ret) == RecordCall(t, op, arg, ret, TRUE)

\* Mutant of Init: every slot starts with an empty Trace stored in it.
Init_prefilled ==
    /\ TRACEBACK = [k \in Threads |-> Some(k)]
    /\ heap = [o \in ObjIds |-> IF o \in Threads THEN Some(Trace_new(<<>>, None)) ELSE None]
    /\ local = [t \in Threads |-> None]
    /\ log = [t \in Threads |-> <<>>]
    /\ agg = None
    /\ made = [ctor |-> "none", arg |-> <<>>, expr |-> None]
    /\ takes = 0
    /\ last = [op |-> "none", ret |-> None]

Init ==
    /\ TRACEBACK = [k \in Threads |-> None]
    /\ heap = [o \in ObjIds |-> None]
    /\ local = [t \in Threads |-> None]
    /\ log = [t \in Threads |-> <<>>]
    /\ agg = None
    /\ made = [ctor |-> "none", arg |-> <<>>, expr |-> None]
    /\ takes = 0
    /\ last = [op |-> "none", ret |-> None]

\* Mutant of clear_traceback: the slot is left as it is.
clear_traceback_noop(t) ==
    /\ Ops < MaxOps
    /\ UNCHANGED <<TRACEBACK, heap, local, aggvars>>
    /\ Record(t, "clear", None, None)

\* *tb.borrow_mut() = None: the old value is dropped, the slot is None;
\* both also when a destructor of the old value panics.
clear_traceback(t) ==
    /\ Ops < MaxOps
    /\ heap' = Drop(heap, TRACEBACK[thread_local(t)])
    /\ TRACEBACK' = [TRACEBACK EXCEPT ![thread_local(t)] = None]
    /\ UNCHANGED <<local, aggvars>>
    /\ RecordCall(t, "clear", None, None,
                  assign_completes(heap, TRACEBACK[thread_local(t)]))

\* Mutant of get_traceback: the caller receives the stored object itself
\* instead of a clone of it.
get_traceback_shared(t) ==
    /\ Ops < MaxOps
    /\ LET cur == TRACEBACK[thread_local(t)]
       IN /\ heap' = IF local[t] = cur THEN heap ELSE Drop(heap, local[t])
          /\ local' = [local EXCEPT ![t] = cur]
    /\ UNCHANGED <<TRACEBACK, aggvars>>
    /\ Record(t, "get", None, Content(heap', local'[t]))

\* tb.borrow().clone(): the caller receives a new object; the value it held
\* before is dropped when the result is assigned over it.
get_traceback(t) ==
    /\ Ops < MaxOps
    /\ LET cur == TRACEBACK[thread_local(t)]
           h1 == Drop(heap, local[t])
           o == NewObj(h1)
       IN IF IsSome(cur)
          THEN /\ heap' = [h1 EXCEPT ![o] = Some(Trace_clone(Unwrap(heap[Unwrap(cur)])))]
               /\ local' = [local EXCEPT ![t] = Some(o)]
          ELSE /\ heap' = h1
               /\ local' = [local EXCEPT ![t] = None]
    /\ UNCHANGED <<TRACEBACK, aggvars>>
    /\ Record(t, "get", None, Content(heap', local'[t]))

\* Mutant of set_traceback: a trace already stored is kept and the new one
\* is dropped.
set_traceback_if_empty(t, trace) ==
    /\ Ops < MaxOps
    /\ LET o == NewObj(heap)
       IN IF IsSome(TRACEBACK[thread_local(t)])
          THEN UNCHANGED <<TRACEBACK, heap>>
          ELSE /\ heap' = [heap EXCEPT ![o] = Some(trace)]
               /\ TRACEBACK' = [TRACEBACK EXCEPT ![thread_local(t)] = Some(o)]
    /\ UNCHANGED <<local, aggvars>>
    /\ Record(t, "set", Some(trace), None)

\* *tb.borrow_mut() = Some(trace): the old value is dropped, the new one is
\* moved into the slot; both also when a destructor of the old value panics.
set_traceback(t, trace) ==
    /\ Ops < MaxOps
    /\ LET h1 == Drop(heap, TRACEBACK[thread_local(t)])
           o == NewObj(h1)
       IN /\ heap' = [h1 EXCEPT ![o] = Some(trace)]
          /\ TRACEBACK' = [TRACEBACK EXCEPT ![thread_local(t)] = Some(o)]
    /\ UNCHANGED <<local, aggvars>>
    /\ RecordCall(t, "set", Some(trace), None,
                  assign_completes(heap, TRACEBACK[thread_local(t)]))

\* replace(&mut *tb.borrow_mut(), None): the stored object itself moves to
\* the caller.
take_traceback(t) ==
    /\ Ops < MaxOps
    /\ LET r == replace(TRACEBACK[thread_local(t)], None)
       IN /\ TRACEBACK' = [TRACEBACK EXCEPT ![thread_local(t)] = r.dest]
          /\ heap' = Drop(heap, local[t])
          /\ local' = [local EXCEPT ![t] = r.ret]
    /\ UNCHANGED aggvars
    /\ Record(t, "take", None, Content(heap', local'[t]))

\* trace.take_expr() on the Trace the caller holds.
local_take_expr(t) ==
    /\ Ops < MaxOps
    /\ IsSome(Content(heap, local[t]))
    /\ LET o == Unwrap(local[t])
           r == Trace_take_expr(Unwrap(heap[o]))
       IN /\ heap' = [heap EXCEPT ![o] = Some(r.self)]
          /\ UNCHANGED <<TRACEBACK, local, aggvars>>
          /\ Record(t, "take_expr", None, r.ret)

Next ==
    \E t \in Threads :
        \/ clear_traceback(t)
        \/ get_traceback(t)
        \/ \E trace \in SetArgs(t) : set_traceback(t, trace)
        \/ take_traceback(t)
        \/ local_take_expr(t)

Spec == Init /\ [][Next]_vars

\* ------------------------------------------------------------- rendering
\* A text sink behind a fmt::Formatter: the strings written to it so far,
\* when `limited` the number of writes it still accepts, and the number of
\* writes it has rejected.
Sink(limited, left) ==
    [writes |-> <<>>, limited |-> limited, left |-> left, rejected |-> 0]

Sinks == {Sink(FALSE, 0)} \cup { Sink(TRUE, k) : k \in 0 .. MaxWrites }

Ok(f) == [f |-> f, ok |-> TRUE]
Err(f) == [f |-> f, ok |-> FALSE]

\* fmt::Write::write_str / write_char: one write to the sink.
write_str(f, s) ==
    IF f.limited /\ f.left = 0
    THEN Err([f EXCEPT !.rejected = @ + 1])
    ELSE Ok([f EXCEPT !.writes = Append(@, s),
                      !.left = IF f.limited THEN @ - 1 ELSE @])

\* Formatter::write_fmt: the pieces of the format string and the arguments
\* are written one after the other; the first failure is returned.
RECURSIVE write_fmt(_, _)
write_fmt(f, pieces) ==
    IF pieces = <<>>
    THEN Ok(f)
    ELSE LET r == write_str(f, Head(pieces))
         IN IF r.ok THEN write_fmt(r.f, Tail(pieces)) ELSE r

\* Mutant of writeln_args: the DefineMacro arm carries the text of the
\* CallMacro arm.
writeln_args_macro(names, item) ==
    LET tag == item[1]
        a == NameStore_get(names, item[2])
        b == NameStore_get(names, item[3])
    IN CASE tag = "CallCode" -> <<"  In ", a, ", function ", b, "\n">>
         [] tag = "CallExpr" -> <<"  In ", a, ", call expression\n">>
         [] tag = "CallLambda" -> <<"  In ", a, ", lambda\n">>
         [] tag = "CallMacro" -> <<"  In ", a, ", macro expansion ", b, "\n">>
         [] tag = "CallOperator" -> <<"  In ", a, ", operator ", b, "\n">>
         [] tag = "CallSys" -> <<"  In system function ", a, "\n">>
         [] tag = "Define" -> <<"  In ", a, ", define ", b, "\n">>
         [] tag = "DefineConst" -> <<"  In ", a, ", const ", b, "\n">>
         [] tag = "DefineLambda" -> <<"  In ", a, ", lambda\n">>
         [] tag = "DefineMacro" -> <<"  In ", a, ", macro expansion ", b, "\n">>
         [] tag = "DefineStruct" -> <<"  In ", a, ", struct ", b, "\n">>
         [] tag = "UseModule" -> <<"  In ", a, ", use ", b, "\n">>

\* The arguments of the writeln! the match arm of an item runs.
writeln_args(names, item) ==
    LET tag == item[1]
        a == NameStore_get(names, item[2])
        b == NameStore_get(names, item[3])
    IN CASE tag = "CallCode" -> <<"  In ", a, ", function ", b, "\n">>
         [] tag = "CallExpr" -> <<"  In ", a, ", call expression\n">>
         [] tag = "CallLambda" -> <<"  In ", a, ", lambda\n">>
         [] tag = "CallMacro" -> <<"  In ", a, ", macro expansion ", b, "\n">>
         [] tag = "CallOperator" -> <<"  In ", a, ", operator ", b, "\n">>
         [] tag = "CallSys" -> <<"  In system function ", a, "\n">>
         [] tag = "Define" -> <<"  In ", a, ", define ", b, "\n">>
         [] tag = "DefineConst" -> <<"  In ", a, ", const ", b, "\n">>
         [] tag = "DefineLambda" -> <<"  In ", a, ", lambda\n">>
         [] tag = "DefineMacro" -> <<"  In ", a, ", macro ", b, "\n">>
         [] tag = "DefineStruct" -> <<"  In ", a, ", struct ", b, "\n">>
         [] tag = "UseModule" -> <<"  In ", a, ", use ", b, "\n">>

RECURSIVE Spaces(_)
Spaces(n) == IF n = 0 THEN "" ELSE " " \o Spaces(n - 1)

\* crate::pretty::pretty_print: the writes that print a value at an
\* indentation; continuation lines are indented one column further.
pretty_pieces(names, v, indent) ==
    CASE v = "v1" -> <<"(", NameStore_get(names, 3), " 1 2)">>
      [] v = "v2" -> <<"(do", "\n", Spaces(indent + 1), NameStore_get(names, 2), ")">>

pretty_print(f, names, v, indent) == write_fmt(f, pretty_pieces(names, v, indent))

\* Mutant of fmt_items: the result of writeln! is ignored, the loop goes on
\* and ends in Ok.
RECURSIVE fmt_items_unchecked(_, _, _)
fmt_items_unchecked(items, names, f) ==
    IF items = <<>>
    THEN Ok(f)
    ELSE fmt_items_unchecked(Tail(items), names,
                             write_fmt(f, writeln_args(names, Head(items))).f)

\* The `for item in &self.items` loop; `?` returns the first failure.
RECURSIVE fmt_items(_, _, _)
fmt_items(items, names, f) ==
    IF items = <<>>
    THEN Ok(f)
    ELSE LET r == write_fmt(f, writeln_args(names, Head(items)))
         IN IF r.ok THEN fmt_items(Tail(items), names, r.f) ELSE r

\* Mutant of ref_expr: the expression is moved out of self (`.take()`).
ref_expr_taken(self) == Trace_take_expr(self)

\* `Some(ref expr) = self.expr` behind `&self`: the expression is borrowed,
\* self keeps it.
ref_expr(self) == [ret |-> self.expr, self |-> self]

\* Mutant of fmt_expr: the closing newline is written outside the
\* `if let`, also when there is no expression.
fmt_expr_always_newline(self, names, f) ==
    LET expr == ref_expr(self).ret
    IN IF IsSome(expr)
       THEN LET r1 == write_str(f, "    ")
            IN IF ~r1.ok THEN r1
               ELSE LET r2 == pretty_print(r1.f, names, Unwrap(expr), 4)
                    IN IF ~r2.ok THEN r2 ELSE write_str(r2.f, "\n")
       ELSE write_str(f, "\n")

\* Mutant of fmt_expr: the four spaces before the expression are missing.
fmt_expr_unindented(self, names, f) ==
    IF IsSome(self.expr)
    THEN LET r2 == pretty_print(f, names, Unwrap(self.expr), 4)
         IN IF ~r2.ok THEN r2 ELSE write_str(r2.f, "\n")
    ELSE Ok(f)

\* The `if let Some(ref expr) = self.expr` block.
fmt_expr(self, names, f) ==
    LET expr == ref_expr(self).ret
    IN IF IsSome(expr)
       THEN LET r1 == write_str(f, "    ")
            IN IF ~r1.ok THEN r1
               ELSE LET r2 == pretty_print(r1.f, names, Unwrap(expr), 4)
                    IN IF ~r2.ok THEN r2 ELSE write_str(r2.f, "\n")
       ELSE Ok(f)

\* <Trace as NameDisplay>::fmt
Trace_fmt(self, names, f) ==
    LET r == fmt_items(self.items, names, f)
    IN IF r.ok THEN fmt_expr(self, names, r.f) ELSE r

\* The Trace behind `&self` when fmt returns: the item loop only reads it,
\* and the expression block is reached when every item line was written.
Trace_fmt_self(self, names, f) ==
    IF fmt_items(self.items, names, f).ok THEN ref_expr(self).self ELSE self

\* ------------------------------------------------- calls on one Trace
New(items, expr) ==
    /\ agg = None
    /\ made.ctor = "none"
    /\ agg' = Some(Trace_new(items, expr))
    /\ made' = [ctor |-> "new", arg |-> items, expr |-> expr]
    /\ last' = [op |-> "new", ret |-> None]
    /\ UNCHANGED <<takes, regvars>>

Single(item, expr) ==
    /\ agg = None
    /\ made.ctor = "none"
    /\ agg' = Some(Trace_single(item, expr))
    /\ made' = [ctor |-> "single", arg |-> item, expr |-> expr]
    /\ last' = [op |-> "single", ret |-> None]
    /\ UNCHANGED <<takes, regvars>>

Items ==
    /\ IsSome(agg)
    /\ last' = [op |-> "items", ret |-> Trace_items(Unwrap(agg))]
    /\ UNCHANGED <<agg, made, takes, regvars>>

Expr ==
    /\ IsSome(agg)
    /\ last' = [op |-> "expr", ret |-> Trace_expr(Unwrap(agg))]
    /\ UNCHANGED <<agg, made, takes, regvars>>

TakeExpr ==
    /\ IsSome(agg)
    /\ LET r == Trace_take_expr(Unwrap(agg))
       IN /\ agg' = Some(r.self)
          /\ last' = [op |-> "take_expr", ret |-> r.ret]
    /\ takes' = IF takes < 2 THEN takes + 1 ELSE takes
    /\ UNCHANGED <<made, regvars>>

Fmt(f) ==
    /\ IsSome(agg)
    /\ last' = [op |-> "fmt", ret |-> Trace_fmt(Unwrap(agg), NameStore, f), sink |-> f]
    /\ agg' = Some(Trace_fmt_self(Unwrap(agg), NameStore, f))
    /\ UNCHANGED <<made, takes, regvars>>

\* The thread on which the Trace is made and used.
Owner == 1

\* set_traceback(trace) with the Trace the caller holds: it moves into the
\* slot and the Trace stored before is dropped.
SetTraceback ==
    /\ IsSome(agg)
    /\ LET h1 == Drop(heap, TRACEBACK[thread_local(Owner)])
           o == NewObj(h1)
       IN /\ heap' = [h1 EXCEPT ![o] = agg]
          /\ TRACEBACK' = [TRACEBACK EXCEPT ![thread_local(Owner)] = Some(o)]
    /\ agg' = None
    /\ last' = [op |-> "set", ret |-> None]
    /\ UNCHANGED <<local, log, made, takes>>

\* get_traceback() by a caller that holds no Trace: it receives a clone.
GetTraceback ==
    /\ agg = None
    /\ IsSome(Slot(Owner))
    /\ agg' = Some(Trace_clone(Unwrap(Slot(Owner))))
    /\ last' = [op |-> "get", ret |-> agg']
    /\ UNCHANGED <<regvars, made, takes>>

\* take_traceback() by a caller that holds no Trace: the stored Trace
\* moves to it.
TakeTraceback ==
    /\ agg = None
    /\ IsSome(Slot(Owner))
    /\ LET r == replace(TRACEBACK[thread_local(Owner)], None)
       IN /\ TRACEBACK' = [TRACEBACK EXCEPT ![thread_local(Owner)] = r.dest]
          /\ agg' = Content(heap, r.ret)
          /\ heap' = Drop(heap, r.ret)
    /\ last' = [op |-> "take", ret |-> agg']
    /\ UNCHANGED <<local, log, made, takes>>

TraceNext ==
    \/ \E items \in ItemSeqs, expr \in OptValues : New(items, expr)
    \/ \E item \in TraceItems, expr \in OptValues : Single(item, expr)
    \/ Items
    \/ Expr
    \/ TakeExpr
    \/ \E f \in Sinks : Fmt(f)
    \/ SetTraceback
    \/ GetTraceback
    \/ TakeTraceback

TraceSpec == Init /\ [][TraceNext]_vars

\* ======================================================= registry claims
RegOps == {"set", "get", "take", "clear"}

\* The registry calls of a thread, in program order.
RegLog(t) == SelectSeq(log[t], LAMBDA e : e.op \in RegOps)

Last(S) == CHOOSE j \in S : \A k \in S : k <= j

\* What the slot should hold before call i of l: the argument of the most
\* recent set if no take or clear came after it, nothing otherwise.
Stored(l, i) ==
    LET W == { j \in 1 .. (i - 1) : l[j].op \in {"set", "take", "clear"} }
    IN IF W = {} THEN None
       ELSE IF l[Last(W)].op = "set" THEN l[Last(W)].arg ELSE None

\* C1: within a thread every get returns a value equal to the trace of the
\* most recent set when no take or clear followed that set, and None
\* otherwise; the trace of an earlier set is never returned.
C1_GetReturnsLatestSet ==
    \A t \in Threads :
        LET l == RegLog(t)
        IN \A i \in 1 .. Len(l) : l[i].op = "get" => l[i].ret = Stored(l, i)

\* A thread set two different traces and its get then returned the second.
C1_Witness ==
    \E t \in Threads :
        LET l == RegLog(t)
        IN \E i \in 1 .. Len(l) :
              /\ i + 2 <= Len(l)
              /\ l[i].op = "set" /\ l[i + 1].op = "set" /\ l[i + 2].op = "get"
              /\ l[i].arg # l[i + 1].arg
              /\ l[i + 2].ret = l[i + 1].arg

\* C2: set(t); take(); take(); get() on one thread: the first take returns
\* Some(t) and empties the slot, the second take and the get return None.
C2_TakeLaw ==
    \A t \in Threads :
        LET l == RegLog(t)
        IN \A i \in 1 .. Len(l) :
              l[i].op = "set" =>
                 /\ (i + 1 <= Len(l) /\ l[i + 1].op = "take") =>
                        /\ l[i + 1].ret = l[i].arg
                        /\ l[i + 1].post[t].slot = None
                 /\ (i + 2 <= Len(l) /\ l[i + 1].op = "take" /\ l[i + 2].op = "take") =>
                        l[i + 2].ret = None
                 /\ (i + 3 <= Len(l) /\ l[i + 1].op = "take" /\ l[i + 2].op = "take"
                        /\ l[i + 3].op = "get") =>
                        l[i + 3].ret = None

\* A thread ran the whole sequence set(t); take(); take(); get().
C2_Witness ==
    \E t \in Threads :
        LET l == RegLog(t)
        IN /\ Len(l) = 4
           /\ l[1].op = "set" /\ l[2].op = "take" /\ l[3].op = "take" /\ l[4].op = "get"
           /\ Len(l[1].arg[1].items) = 2
           /\ l[2].ret = l[1].arg

\* C3: after set(t), each of any number of consecutive gets returns a value
\* equal to t, and the content of the slot is the same before and after
\* each get.
C3_GetRoundTrip ==
    \A t \in Threads :
        LET l == RegLog(t)
        IN \A i \in 1 .. Len(l) : \A j \in (i + 1) .. Len(l) :
              (l[i].op = "set" /\ \A k \in (i + 1) .. j : l[k].op = "get") =>
                 /\ l[j].ret = l[i].arg
                 /\ l[j].pre[t].slot = l[i].arg
                 /\ l[j].post[t].slot = l[i].arg

\* A thread set a two-item trace with an expression and read it three times.
C3_Witness ==
    \E t \in Threads :
        LET l == RegLog(t)
        IN /\ Len(l) = 4
           /\ l[1].op = "set" /\ l[2].op = "get" /\ l[3].op = "get" /\ l[4].op = "get"
           /\ Len(l[1].arg[1].items) = 2
           /\ IsSome(l[1].arg[1].expr)
           /\ l[4].ret = l[1].arg

\* C4: clear leaves the slot empty, so that a get or a take right after it
\* returns None; on an empty slot clear changes nothing the thread can see.
C4_ClearEmpties ==
    \A t \in Threads :
        LET l == RegLog(t)
        IN \A i \in 1 .. Len(l) :
              l[i].op = "clear" =>
                 /\ l[i].post[t].slot = None
                 /\ l[i].pre[t].slot = None => l[i].post[t] = l[i].pre[t]
                 /\ (i + 1 <= Len(l) /\ l[i + 1].op \in {"get", "take"}) =>
                        l[i + 1].ret = None

\* A thread cleared a slot that held a trace, cleared the empty slot again,
\* and then read it.
C4_Witness ==
    \E t \in Threads :
        LET l == RegLog(t)
        IN \E i \in 1 .. Len(l) :
              /\ i + 2 <= Len(l)
              /\ l[i].op = "clear" /\ IsSome(l[i].pre[t].slot)
              /\ l[i + 1].op = "clear" /\ l[i + 1].pre[t].slot = None
              /\ l[i + 2].op \in {"get", "take"}

\* C5: whatever the interleaving, a get or take of a thread returns None or
\* a trace that the same thread passed to set before, and no call of a
\* thread changes what another thread observes.
C5_ThreadIsolation ==
    \A t \in Threads :
        \A i \in 1 .. Len(log[t]) :
            LET e == log[t][i]
            IN /\ e.op \in {"get", "take"} =>
                     \/ e.ret = None
                     \/ \E j \in 1 .. (i - 1) : log[t][j].op = "set" /\ log[t][j].arg = e.ret
               /\ \A u \in Threads \ {t} : e.post[u] = e.pre[u]

\* A thread read back its own trace while the slot of the other thread held
\* a different one.
C5_Witness ==
    \E t \in Threads : \E u \in Threads \ {t} :
        \E i \in 1 .. Len(log[t]) :
            LET e == log[t][i]
            IN /\ e.op \in {"get", "take"}
               /\ IsSome(e.ret)
               /\ IsSome(e.pre[u].slot)
               /\ e.pre[u].slot # e.ret

\* C6: take_expr on the value a get returned leaves the stored trace as it
\* was: the slot is unchanged by it, and a later get or take (with no set,
\* take or clear in between) returns the trace the earlier get returned,
\* with its expression.
C6_GetIsIndependentCopy ==
    \A t \in Threads :
        LET l == log[t]
        IN \A i \in 1 .. Len(l) : \A k \in (i + 1) .. Len(l) :
              (/\ l[i].op = "get" /\ IsSome(l[i].ret)
               /\ l[k].op = "take_expr"
               /\ \A m \in (i + 1) .. (k - 1) : l[m].op \in {"get", "take_expr"}) =>
                 /\ l[k].post[t].slot = l[k].pre[t].slot
                 /\ \A j \in (k + 1) .. Len(l) :
                       (/\ l[j].op \in {"get", "take"}
                        /\ \A m \in (k + 1) .. (j - 1) : l[m].op \in {"get", "take_expr"}) =>
                          l[j].ret = l[i].ret

\* A get returned a trace with an expression, take_expr removed it from the
\* copy, and a later get or take returned the trace with the expression.
C6_Witness ==
    \E t \in Threads :
        LET l == log[t]
        IN \E i \in 1 .. Len(l) :
              /\ i + 2 <= Len(l)
              /\ l[i].op = "get" /\ IsSome(l[i].ret) /\ IsSome(l[i].ret[1].expr)
              /\ l[i + 1].op = "take_expr" /\ IsSome(l[i + 1].ret)
              /\ l[i + 1].post[t].local[1].expr = None
              /\ l[i + 2].op \in {"get", "take"}
              /\ IsSome(l[i + 2].ret[1].expr)

\* ========================================================== Trace claims
\* The items the constructor call was given.
MadeItems == IF made.ctor = "single" THEN <<made.arg>> ELSE made.arg

\* C7: on a Trace built with expression e the first take_expr returns e and
\* every later one returns None; once take_expr has been called, expr()
\* returns None as well.
C7_SingleConsumption ==
    /\ last.op = "take_expr" => last.ret = IF takes = 1 THEN made.expr ELSE None
    /\ (last.op = "expr" /\ takes >= 1) => last.ret = None

\* A second take_expr on a Trace built with an expression returned None.
C7_Witness ==
    /\ last.op = "take_expr"
    /\ takes = 2
    /\ IsSome(made.expr)
    /\ last.ret = None

\* C8: items() of new(items, expr) is the sequence given to new, and items()
\* of single(item, expr) is the one-element sequence of item.
C8_OrderPreserved ==
    last.op = "items" =>
       /\ made.ctor = "new" => last.ret = made.arg
       /\ made.ctor = "single" => last.ret = <<made.arg>>

\* items() returned three items, two of them equal, in the order given to
\* new.
C8_Witness ==
    /\ last.op = "items"
    /\ made.ctor = "new"
    /\ made.arg = <<DefineMacro(2, 1), CallLambda(1), CallLambda(1)>>
    /\ last.ret = <<DefineMacro(2, 1), CallLambda(1), CallLambda(1)>>

\* The line the interface description gives for an item, with scope and
\* name resolved.
Line(names, item) ==
    LET tag == item[1]
        scope == names[item[2]]
        name == names[item[3]]
    IN CASE tag = "CallCode" -> "  In " \o scope \o ", function " \o name \o "\n"
         [] tag = "CallExpr" -> "  In " \o scope \o ", call expression\n"
         [] tag \in {"CallLambda", "DefineLambda"} -> "  In " \o scope \o ", lambda\n"
         [] tag = "CallMacro" -> "  In " \o scope \o ", macro expansion " \o name \o "\n"
         [] tag = "CallOperator" -> "  In " \o scope \o ", operator " \o name \o "\n"
         [] tag = "CallSys" -> "  In system function " \o names[item[2]] \o "\n"
         [] tag = "Define" -> "  In " \o scope \o ", define " \o name \o "\n"
         [] tag = "DefineConst" -> "  In " \o scope \o ", const " \o name \o "\n"
         [] tag = "DefineMacro" -> "  In " \o scope \o ", macro " \o name \o "\n"
         [] tag = "DefineStruct" -> "  In " \o scope \o ", struct " \o name \o "\n"
         [] tag = "UseModule" -> "  In " \o scope \o ", use " \o name \o "\n"

RECURSIVE Lines(_, _)
Lines(names, items) ==
    IF items = <<>> THEN "" ELSE Line(names, Head(items)) \o Lines(names, Tail(items))

RECURSIVE Join(_)
Join(pieces) == IF pieces = <<>> THEN "" ELSE Head(pieces) \o Join(Tail(pieces))

Char(s, i) == SubSeq(s, i, i)

Newlines(s) == Cardinality({ i \in 1 .. Len(s) : Char(s, i) = "\n" })

\* The last call rendered into a sink that accepts every write.
Rendered == last.op = "fmt" /\ ~last.sink.limited

\* The text on the sink after the last render.
Text == Join(last.ret.f.writes)

\* C9: into a sink that accepts every write, rendering a Trace of n items
\* succeeds and first emits n lines, the k-th being the line of the k-th
\* item; every line begins with two spaces and ends with a newline; with no
\* expression these lines are all the output. single(CallSys(open-file),
\* None) renders as "  In system function open-file\n".
C9_ItemLines ==
    Rendered =>
       LET out == Text
           n == Len(Lines(NameStore, MadeItems))
           head == SubSeq(out, 1, n)
       IN /\ last.ret.ok
          /\ Len(out) >= n
          /\ head = Lines(NameStore, MadeItems)
          /\ Newlines(head) = Len(MadeItems)
          /\ head # "" => Char(head, n) = "\n"
          /\ \A i \in 1 .. n :
                (i = 1 \/ Char(head, i - 1) = "\n") => SubSeq(head, i, i + 1) = "  "
          /\ made.expr = None => out = head
          /\ (made.ctor = "single" /\ made.arg = CallSys(4) /\ made.expr = None) =>
                out = "  In system function open-file\n"

\* A Trace of a DefineMacro, a CallLambda and a Define item rendered as
\* their three lines.
C9_Witness ==
    /\ Rendered
    /\ made.ctor = "new"
    /\ made.arg = <<DefineMacro(2, 1), CallLambda(1), Define(1, 2)>>
    /\ made.expr = None
    /\ Text = "  In x, macro main\n  In main, lambda\n  In main, define x\n"

\* The expression the Trace holds when it is rendered.
ExprAtRender == IF takes = 0 THEN made.expr ELSE None

\* C10: what rendering emits after the item lines is four spaces, the
\* expression as pretty_print writes it at indentation 4 and a newline when
\* the Trace holds an expression, and nothing when it holds none or
\* take_expr has removed it.
C10_ExprAfterItems ==
    Rendered =>
       LET out == Text
           n == Len(Lines(NameStore, MadeItems))
           tail == SubSeq(out, n + 1, Len(out))
       IN tail = IF IsSome(ExprAtRender)
                 THEN "    " \o Join(pretty_pieces(NameStore, Unwrap(ExprAtRender), 4)) \o "\n"
                 ELSE ""

\* [Define(main, x), CallOperator(main, +)] with the expression (+ 1 2)
\* rendered as the two lines and the indented expression.
C10_Witness ==
    /\ Rendered
    /\ made.ctor = "new"
    /\ made.arg = <<Define(1, 2), CallOperator(1, 3)>>
    /\ made.expr = Some("v1")
    /\ Text = "  In main, define x\n  In main, operator +\n    (+ 1 2)\n"

\* The whole text of a Trace with the given items and expression.
FullText(names, items, expr) ==
    Lines(names, items) \o
       (IF IsSome(expr)
        THEN "    " \o Join(pretty_pieces(names, Unwrap(expr), 4)) \o "\n"
        ELSE "")

IsPrefix(s, u) == Len(s) <= Len(u) /\ SubSeq(u, 1, Len(s)) = s

\* C11: rendering returns failure exactly when the sink rejected a write;
\* it stops at the first rejected write, so the sink sees no write after
\* it; on failure the text on the sink is a proper prefix of the whole
\* rendering, in which the line of every item before the failing write is
\* complete; on success it is the whole rendering.
C11_FailsOnRejectedWrite ==
    last.op = "fmt" =>
       LET f == last.ret.f
           full == FullText(NameStore, MadeItems, ExprAtRender)
       IN /\ last.ret.ok <=> f.rejected = 0
          /\ f.rejected <= 1
          /\ f.rejected = 1 => (f.limited /\ f.left = 0)
          /\ last.ret.ok => Text = full
          /\ ~last.ret.ok =>
                /\ IsPrefix(Text, full) /\ Text # full
                /\ \A j \in 1 .. Len(MadeItems) :
                      LET done == Lines(NameStore, SubSeq(MadeItems, 1, j))
                      IN Len(done) <= Len(Text) => IsPrefix(done, Text)

\* A render failed in the line of the second item: the line of the first
\* item is on the sink, followed by the start of the second line.
C11_Witness ==
    /\ last.op = "fmt"
    /\ made.ctor = "new"
    /\ made.arg = <<CallLambda(1), Define(1, 2)>>
    /\ ~last.ret.ok
    /\ last.ret.f.rejected = 1
    /\ Text = "  In main, lambda\n  In "

\* C12: rendering leaves the Trace as it was, whether it succeeds or fails:
\* the Trace after a render equals the Trace before it, so items() and
\* expr() called next return what they returned before, take_expr() called
\* next still returns the expression the Trace held, and a second render
\* into a sink that accepts every write gives the whole text again.
C12_RenderStep ==
    /\ last'.op = "fmt" =>
          /\ agg' = agg
          /\ Trace_items(Unwrap(agg')) = Trace_items(Unwrap(agg))
          /\ Trace_expr(Unwrap(agg')) = Trace_expr(Unwrap(agg))
    /\ (last.op = "fmt" /\ last'.op = "items") => last'.ret = MadeItems
    /\ (last.op = "fmt" /\ last'.op = "expr") => last'.ret = ExprAtRender
    /\ (last.op = "fmt" /\ last'.op = "take_expr") => last'.ret = ExprAtRender
    /\ (last.op = "fmt" /\ last'.op = "fmt" /\ ~last'.sink.limited) =>
          /\ last'.ret.ok
          /\ Text' = FullText(NameStore, MadeItems, ExprAtRender)
          /\ (~last.sink.limited => Text' = Text)

C12_RenderDoesNotMutate == [][C12_RenderStep]_vars

\* A render that failed inside the expression block of a Trace that still
\* holds the expression it was built with.
C12_Witness ==
    /\ last.op = "fmt"
    /\ ~last.ret.ok
    /\ takes = 0
    /\ IsSome(made.expr)
    /\ Unwrap(agg).expr = made.expr
    /\ IsPrefix(Lines(NameStore, MadeItems) \o "    ", Text)

\* The Traces alive on behalf of thread t: the one in its slot and the one
\* its caller still holds from its last get_traceback / take_traceback.
Live(t) ==
    (IF IsSome(Slot(t)) THEN 1 ELSE 0)
       + (IF IsSome(Content(heap, local[t])) THEN 1 ELSE 0)

\* The places that own object o.
Holders(o) ==
    { <<"slot", k>> : k \in { k \in Threads : TRACEBACK[k] = Some(o) } }
       \cup { <<"local", t>> : t \in { t \in Threads : local[t] = Some(o) } }

\* C13 as stated: counting the Trace in the slot together with the Trace
\* handed out by get_traceback / take_traceback that the caller still
\* holds, a thread never has more than one.
C13_AtMostOneLive == \A t \in Threads : Live(t) <= 1

\* C13, amended: the slot of a thread holds at most one Trace, and every
\* live Trace has exactly one owner, a slot or a caller; a Trace overwritten
\* by set or removed by clear is dropped. get_traceback gives the caller a
\* second Trace, a clone next to the stored one, so a thread has up to two;
\* right after take_traceback the slot is empty and the caller holds the
\* only one.
C13_OneOwnerEach ==
    /\ \A o \in ObjIds : IsSome(heap[o]) <=> Cardinality(Holders(o)) = 1
    /\ \A o \in ObjIds : Cardinality(Holders(o)) <= 1
    /\ \A t \in Threads :
          /\ Live(t) <= 2
          /\ log[t] # <<>> =>
                LET e == log[t][Len(log[t])]
                IN /\ (e.op = "get" /\ IsSome(e.ret)) =>
                         /\ Live(t) = 2
                         /\ TRACEBACK[thread_local(t)] # local[t]
                   /\ e.op = "take" => Live(t) <= 1
                   /\ e.op = "clear" => ~IsSome(Slot(t))

\* After set then get, the slot and the caller each hold a Trace of their
\* own with the same content.
C13_Witness ==
    \E t \in Threads :
        /\ Live(t) = 2
        /\ Len(log[t]) = 2
        /\ log[t][1].op = "set"
        /\ log[t][2].op = "get"
        /\ TRACEBACK[thread_local(t)] # local[t]
        /\ Slot(t) = Content(heap, local[t])

BeforeAnySet(l, i) == \A j \in 1 .. i - 1 : l[j].op # "set"

\* C15: on a thread that has not called set_traceback the slot is empty:
\* get_traceback and take_traceback return None, and take_traceback and
\* clear_traceback leave the slot empty, so a get_traceback that follows
\* returns None as well.
C15_EmptyUntilSet ==
    \A t \in Threads : \A i \in 1 .. Len(log[t]) :
        LET e == log[t][i]
        IN (e.op \in {"get", "take", "clear"} /\ BeforeAnySet(log[t], i)) =>
              /\ e.pre[t].slot = None
              /\ e.op \in {"get", "take"} => e.ret = None
              /\ e.post[t].slot = None

\* A thread that never called set_traceback has called take_traceback,
\* clear_traceback and get_traceback, in this order, while the other thread
\* has a Trace stored.
C15_Witness ==
    \E t \in Threads :
        /\ Len(log[t]) = 3
        /\ log[t][1].op = "take"
        /\ log[t][2].op = "clear"
        /\ log[t][3].op = "get"
        /\ log[t][3].ret = None
        /\ \E u \in Threads \ {t} : IsSome(Slot(u))

\* The Trace is what its constructor was given, but for an expression that
\* take_expr has removed.
AsMade(trace) ==
    /\ Trace_items(trace) = MadeItems
    /\ Trace_expr(trace) \in {made.expr, None}

C16_Step ==
    /\ IsSome(agg') =>
          /\ AsMade(Unwrap(agg))'
          /\ Trace_expr(Unwrap(agg))' = ExprAtRender'
    /\ IsSome(Slot(Owner))' => AsMade(Unwrap(Slot(Owner)))'
    /\ last'.op = "items" => last'.ret = MadeItems'
    /\ last'.op \in {"get", "take"} => Trace_items(Unwrap(last'.ret)) = MadeItems'
    /\ (IsSome(agg) /\ IsSome(agg')) =>
          /\ Trace_items(Unwrap(agg')) = Trace_items(Unwrap(agg))
          /\ \/ Trace_expr(Unwrap(agg')) = Trace_expr(Unwrap(agg))
             \/ /\ IsSome(Trace_expr(Unwrap(agg)))
                /\ Trace_expr(Unwrap(agg')) = None
                /\ last'.op = "take_expr"

\* C16: the items of a Trace stay the sequence its constructor was given
\* across items(), expr(), take_expr() and rendering, and across being
\* stored by set_traceback and returned by get_traceback or take_traceback;
\* only the expression changes, and only from Some to None, by take_expr.
C16_ItemsNeverChange == [][C16_Step]_vars

\* A Trace of two items built with an expression has lost the expression
\* to take_expr, was stored by set_traceback and has come back from
\* take_traceback with its two items.
C16_Witness ==
    /\ last.op = "take"
    /\ takes = 1
    /\ made.ctor = "new"
    /\ Len(made.arg) = 2
    /\ IsSome(made.expr)
    /\ Trace_items(Unwrap(agg)) = made.arg
    /\ Trace_expr(Unwrap(agg)) = None

\* C17: rendering a Trace with no items and no expression makes no write
\* and succeeds, also into a sink that rejects every write; rendering a
\* Trace with no items and an expression writes only four spaces, the
\* expression as pretty_print writes it and a newline, and so fails on a
\* sink that rejects every write.
C17_EmptyTrace ==
    (last.op = "fmt" /\ MadeItems = <<>>) =>
       LET f == last.ret.f
       IN /\ ExprAtRender = None =>
                /\ last.ret.ok
                /\ f = last.sink
                /\ f.writes = <<>>
                /\ f.rejected = 0
          /\ IsSome(ExprAtRender) =>
                LET whole == "    " \o Join(pretty_pieces(NameStore, Unwrap(ExprAtRender), 4))
                                    \o "\n"
                IN /\ ~last.sink.limited =>
                         /\ last.ret.ok
                         /\ Text = whole
                         /\ f.writes[1] = "    "
                         /\ f.writes[Len(f.writes)] = "\n"
                   /\ IsPrefix(Text, whole)
                   /\ (last.sink.limited /\ last.sink.left = 0) =>
                         ~last.ret.ok /\ f.writes = <<>>

\* A Trace with no items and no expression was rendered with success into
\* a sink that rejects every write.
C17_Witness ==
    /\ last.op = "fmt"
    /\ made.ctor = "new"
    /\ made.arg = <<>>
    /\ made.expr = None
    /\ last.sink = Sink(TRUE, 0)
    /\ last.ret.ok
    /\ last.ret.f.writes = <<>>

====
